---- MODULE Spec2Model ----
(***************************************************************************)
(* The record store and QR payload of src/app.py: log_to_excel,            *)
(* get_all_records, generate_qr_base64 and the handlers generate_id,       *)
(* id_preview and batch_view that drive them.                              *)
(*                                                                         *)
(* A Python str is a sequence of one-character strings, so that strip,     *)
(* upper, str() and the f-string concatenation are computed.  A Python     *)
(* value is a tagged record: Str(s) or None.  A dict is a function from    *)
(* key names to values.  The workbook file is the pair (exists, rows):     *)
(* rows are the rows of the active sheet as they are stored in the file.   *)
(*                                                                         *)
(* log_to_excel reads the file once (exists, load_workbook) and writes it  *)
(* once (wb.save); generate_id is split between the two, so that the calls *)
(* of simultaneous callers interleave there.  wb.save is taken to replace  *)
(* the file in one step.  The login check, the flash messages, the is_new  *)
(* flag and the bytes of the uploaded photo do not touch the record store  *)
(* and are left out; the form values are short printable text.             *)
(***************************************************************************)
EXTENDS Integers, Sequences, FiniteSets, TLC

\* ------------------------------------------------------------------ bounds
\* generate_id requests that may be started in one run
MaxAppends == 2

\* ------------------------------------------------------------ Python values
None == [t |-> "NoneType", v |-> <<>>]
Str(s) == [t |-> "str", v |-> s]

\* str(x): str(None) is the text None
PyStr(x) == IF x.t = "NoneType" THEN <<"N", "o", "n", "e">> ELSE x.v

\* truth value of x in "if x:"
Truthy(x) == x.t = "str" /\ x.v # <<>>

\* d.get(k): None for a missing key
DictGet(d, k) == IF k \in DOMAIN d THEN d[k] ELSE None

LowerCase == <<"a", "b", "c", "d", "e", "f", "g", "h", "i", "j", "k", "l", "m",
               "n", "o", "p", "q", "r", "s", "t", "u", "v", "w", "x", "y", "z">>
UpperCase == <<"A", "B", "C", "D", "E", "F", "G", "H", "I", "J", "K", "L", "M",
               "N", "O", "P", "Q", "R", "S", "T", "U", "V", "W", "X", "Y", "Z">>
Whitespace == {" ", "\t", "\n", "\r"}

UpperChar(c) ==
    IF \E i \in DOMAIN LowerCase : LowerCase[i] = c
    THEN UpperCase[CHOOSE i \in DOMAIN LowerCase : LowerCase[i] = c]
    ELSE c

\* s.upper()
Upper(s) == [i \in DOMAIN s |-> UpperChar(s[i])]

\* s.strip()
Strip(s) ==
    LET keep == {i \in DOMAIN s : s[i] \notin Whitespace}
    IN  IF keep = {} THEN <<>>
        ELSE LET lo == CHOOSE i \in keep : \A j \in keep : i <= j
                 hi == CHOOSE i \in keep : \A j \in keep : j <= i
             IN  SubSeq(s, lo, hi)

\* ------------------------------------------------------------------- clock
\* datetime.now(): two instants, in order, one minute apart
Clock == <<
    [date |-> <<"2", "0", "2", "6", "-", "0", "1", "-", "0", "5", " ", "1", "0", ":", "3", "0">>,
     hms  |-> <<"1", "0", "3", "0", "5", "9">>],
    [date |-> <<"2", "0", "2", "6", "-", "0", "1", "-", "0", "5", " ", "1", "0", ":", "3", "1">>,
     hms  |-> <<"1", "0", "3", "1", "0", "0">>] >>

\* ------------------------------------------------------------ request forms
\* request.form and request.files of a POST to /generate: text fields as typed,
\* photo_file the file name of the upload (missing: no file part).
Forms == {
    [id_number |-> <<"a", " ">>, full_name |-> <<"j", "o">>, nickname |-> <<"j">>,
     position |-> <<"p", "a">>, office |-> <<"o", "b">>, contact_name |-> <<"m", "a">>,
     contact_number |-> <<"0", "9">>, address |-> <<"b", "o">>],
    [id_number |-> <<"A">>, full_name |-> <<"a", "n">>,
     position |-> <<>>, office |-> <<" ", "o", "b">>, contact_name |-> <<>>,
     contact_number |-> <<" ", "1", "7">>, address |-> <<>>,
     photo_file |-> <<"p", ".", "j", "p", "g">>],
    [photo_file |-> <<>>] }

\* request.form.get(k, "")
FormGet(form, k) == IF k \in DOMAIN form THEN form[k] ELSE <<>>

\* request.args.get('selected_id') of a GET to /id-preview: None when absent
SelectedIds == {
    None, Str(<<>>), Str(<<"A">>), Str(<<"N", "o", "n", "e">>), Str(<<"Z">>) }

Callers == {"c1", "c2"}

\* --------------------------------------------------------------- constants
EXCEL_HEADERS == <<
    Str(<<"D", "a", "t", "e", " ", "G", "e", "n", "e", "r", "a", "t", "e", "d">>),
    Str(<<"I", "D", " ", "N", "u", "m", "b", "e", "r">>),
    Str(<<"F", "u", "l", "l", " ", "N", "a", "m", "e">>),
    Str(<<"N", "i", "c", "k", "n", "a", "m", "e">>),
    Str(<<"P", "o", "s", "i", "t", "i", "o", "n">>),
    Str(<<"O", "f", "f", "i", "c", "e">>),
    Str(<<"C", "o", "n", "t", "a", "c", "t", " ", "P", "e", "r", "s", "o", "n">>),
    Str(<<"C", "o", "n", "t", "a", "c", "t", " ", "N", "u", "m", "b", "e", "r">>),
    Str(<<"A", "d", "d", "r", "e", "s", "s">>),
    Str(<<"P", "h", "o", "t", "o", " ", "P", "a", "t", "h">>) >>

DefaultPhoto == <<"d", "e", "f", "a", "u", "l", "t", ".", "p", "n", "g">>

VARIABLES
    exists,   \* os.path.exists(EXCEL_FILE)
    rows,     \* the rows of the active sheet of EXCEL_FILE, as stored
    pc,       \* per caller: "idle", "loaded" (inside log_to_excel, before save), "redirect"
    ws,       \* per caller: the in-memory sheet of log_to_excel
    data,     \* per caller: the dict generate_id built
    sel,      \* per caller: selected_id of the redirect generate_id returned
    out,      \* the last response a handler returned
    hist,     \* history: the dict and row of each completed log_to_excel call, in order
    writer,   \* history: the caller of the last completed log_to_excel call
    seen      \* history: per caller inside log_to_excel, Len(hist) when it opened the file

vars == <<exists, rows, pc, ws, data, sel, out, hist, writer, seen>>

\* ------------------------------------------------------ generate_qr_base64
\* The text the QR code encodes.  The PNG and base64 rendering of it is not
\* modelled: the QR code is identified with the text it decodes to.
generate_qr_base64(d) ==
    <<"M", "U", "N", "I", "C", "I", "P", "A", "L", "I", "T", "Y", " ", "O", "F", " ",
      "B", "O", "A", "C", " ", "I", "D", "\n">>
    \o [i \in 1..22 |-> "-"] \o <<"\n">>
    \o <<"I", "D", " ", "N", "O", ":", " ">> \o PyStr(DictGet(d, "id_number")) \o <<"\n">>
    \o <<"N", "A", "M", "E", ":", " ">> \o PyStr(DictGet(d, "full_name")) \o <<"\n">>
    \o <<"P", "O", "S", "I", "T", "I", "O", "N", ":", " ">> \o PyStr(DictGet(d, "position")) \o <<"\n">>
    \o <<"O", "F", "F", "I", "C", "E", ":", " ">> \o PyStr(DictGet(d, "office")) \o <<"\n">>
    \o <<"E", "M", "E", "R", "G", "E", "N", "C", "Y", ":", " ">> \o PyStr(DictGet(d, "contact_name"))
    \o <<" ", "(">> \o PyStr(DictGet(d, "contact_number")) \o <<")">>

\* ------------------------------------------------------------ the workbook
\* wb.save followed by load_workbook: a cell holding the empty string is
\* written as an empty cell, and an empty cell is read as None.
WriteCell(x) == IF x.t = "str" /\ x.v = <<>> THEN None ELSE x

\* wb.save(EXCEL_FILE): the whole sheet replaces the file's rows
SaveSheet(sheet) == [i \in DOMAIN sheet |-> [j \in DOMAIN sheet[i] |-> WriteCell(sheet[i][j])]]

\* faulty variant: the header row is appended on every call, not only to a new workbook
OpenSheetAlwaysHeader(e, r) == Append(IF ~e THEN <<>> ELSE r, EXCEL_HEADERS)

\* faulty variant: a new workbook on every call, the existing file is not loaded
OpenSheetFresh(e, r) == <<EXCEL_HEADERS>>

\* log_to_excel up to the row it appends: a new sheet with the header row when
\* the file does not exist, the loaded sheet otherwise
OpenSheet(e, r) == IF ~e THEN <<EXCEL_HEADERS>> ELSE r

\* the row log_to_excel appends
NewRow(date, d) ==
    <<Str(date), d["id_number"], d["full_name"], d["nickname"], d["position"],
      d["office"], d["contact_name"], d["contact_number"], d["address"],
      d["photo_filename"]>>

\* ws.append([...]) in log_to_excel
AppendRow(sheet, date, d) == Append(sheet, NewRow(date, d))

\* faulty variant: the Full Name and Nickname columns are read into each other's key
RecordOfSwapped(row) ==
    [date |-> row[1], id_number |-> row[2], full_name |-> row[4], nickname |-> row[3],
     position |-> row[5], office |-> row[6], contact_name |-> row[7],
     contact_number |-> row[8], address |-> row[9], photo_filename |-> row[10]]

\* the dict get_all_records builds of one row
RecordOf(row) ==
    [date |-> row[1], id_number |-> row[2], full_name |-> row[3], nickname |-> row[4],
     position |-> row[5], office |-> row[6], contact_name |-> row[7],
     contact_number |-> row[8], address |-> row[9], photo_filename |-> row[10]]

\* faulty variant: iter_rows(min_row=1), the header row is read as a record
get_all_records_from_row_1(e, r) ==
    IF e THEN [i \in 1..Len(r) |-> RecordOf(r[i])] ELSE <<>>

\* get_all_records(): the rows from row 2 on, in file order; [] without a file
get_all_records(e, r) ==
    IF e THEN [i \in 1..(Len(r) - 1) |-> RecordOf(r[i + 1])] ELSE <<>>

\* ------------------------------------------------------------- generate_id
\* the dict generate_id builds of the form; hms is strftime('%H%M%S') of now
BuildData(form, hms) ==
    LET id_number == Upper(Strip(FormGet(form, "id_number")))
        uploaded  == "photo_file" \in DOMAIN form /\ form["photo_file"] # <<>>
    IN  [id_number      |-> Str(id_number),
         full_name      |-> Str(Upper(Strip(FormGet(form, "full_name")))),
         nickname       |-> Str(Upper(Strip(FormGet(form, "nickname")))),
         position       |-> Str(Upper(Strip(FormGet(form, "position")))),
         office         |-> Str(Upper(Strip(FormGet(form, "office")))),
         contact_name   |-> Str(Upper(Strip(FormGet(form, "contact_name")))),
         contact_number |-> Str(Strip(FormGet(form, "contact_number"))),
         address        |-> Str(Upper(Strip(FormGet(form, "address")))),
         photo_filename |-> IF uploaded
                            THEN Str(id_number \o <<"_">> \o hms \o <<".", "p", "n", "g">>)
                            ELSE Str(DefaultPhoto)]

\* -------------------------------------------------------------- id_preview
\* faulty variant: the last record whose id_number matches, not the first
LastMatch(records, selected_id) ==
    LET hits == {i \in DOMAIN records : PyStr(records[i]["id_number"]) = PyStr(selected_id)}
    IN  IF hits = {} THEN records[Len(records)]
        ELSE records[CHOOSE i \in hits : \A j \in hits : j <= i]

\* next((r for r in records if str(r['id_number']) == str(selected_id)), records[-1])
FirstMatch(records, selected_id) ==
    LET hits == {i \in DOMAIN records : PyStr(records[i]["id_number"]) = PyStr(selected_id)}
    IN  IF hits = {} THEN records[Len(records)]
        ELSE records[CHOOSE i \in hits : \A j \in hits : i <= j]

\* the record id_preview selects of a non-empty list of records
SelectRecord(records, selected_id) ==
    IF Truthy(selected_id) THEN FirstMatch(records, selected_id)
    ELSE records[Len(records)]

NoRecord == [t |-> "no record"]
NoQr == <<>>

\* faulty variant: without the "if not records" return, a preview of a blank record is
\* rendered for an empty list
id_preview_blank(records, selected_id) ==
    LET d == IF records = <<>> THEN [id_number |-> None]
             ELSE SelectRecord(records, selected_id)
    IN  [kind |-> "preview", selected_id |-> selected_id, records |-> records,
         selected_record |-> d, qr_code |-> generate_qr_base64(d)]

\* the response of id_preview: the redirect to index when there are no
\* records, the rendered preview otherwise
id_preview(records, selected_id) ==
    IF records = <<>>
    THEN [kind |-> "empty", selected_id |-> selected_id, records |-> records,
          selected_record |-> NoRecord, qr_code |-> NoQr]
    ELSE LET d == SelectRecord(records, selected_id)
         IN  [kind |-> "preview", selected_id |-> selected_id, records |-> records,
              selected_record |-> d, qr_code |-> generate_qr_base64(d)]

\* the response of batch_view: every record with its QR code
batch_view(records) ==
    [kind |-> "batch", selected_id |-> None,
     records |-> [i \in DOMAIN records |->
                    [k \in DOMAIN records[i] \cup {"qr_base64"} |->
                        IF k = "qr_base64" THEN Str(generate_qr_base64(records[i]))
                        ELSE records[i][k]]],
     selected_record |-> NoRecord, qr_code |-> NoQr]

\* ------------------------------------------------------------------- state
NoData == [t |-> "no data"]

Init ==
    /\ exists = FALSE
    /\ rows = <<>>
    /\ pc = [w \in Callers |-> "idle"]
    /\ ws = [w \in Callers |-> <<>>]
    /\ data = [w \in Callers |-> NoData]
    /\ sel = [w \in Callers |-> None]
    /\ out = [kind |-> "none", selected_id |-> None, records |-> <<>>,
              selected_record |-> NoRecord, qr_code |-> NoQr]
    /\ hist = <<>>
    /\ writer = "nobody"
    /\ seen = [w \in Callers |-> 0]

InFlight == Cardinality({w \in Callers : pc[w] = "loaded"})

\* generate_id up to the wb.save of log_to_excel: builds the dict, opens or
\* creates the workbook and appends the row in memory
GenerateLoad(w) ==
    /\ pc[w] = "idle"
    /\ Len(hist) + InFlight < MaxAppends
    /\ \E form \in Forms, i \in DOMAIN Clock, j \in DOMAIN Clock :
         /\ i <= j
         /\ LET d == BuildData(form, Clock[i].hms)
            IN  /\ data' = [data EXCEPT ![w] = d]
                /\ ws' = [ws EXCEPT ![w] = AppendRow(OpenSheet(exists, rows), Clock[j].date, d)]
    /\ pc' = [pc EXCEPT ![w] = "loaded"]
    /\ seen' = [seen EXCEPT ![w] = Len(hist)]
    /\ UNCHANGED <<exists, rows, sel, out, hist, writer>>

\* faulty variant: the save appends the caller's row to the rows the file holds now,
\* not to the rows the caller loaded
GenerateSaveMerging(w) ==
    /\ pc[w] = "loaded"
    /\ exists' = TRUE
    /\ rows' = SaveSheet(Append(OpenSheet(exists, rows), ws[w][Len(ws[w])]))
    /\ hist' = Append(hist, [data |-> data[w], row |-> ws[w][Len(ws[w])]])
    /\ writer' = w
    /\ seen' = [seen EXCEPT ![w] = 0]
    /\ sel' = [sel EXCEPT ![w] = data[w]["id_number"]]
    /\ pc' = [pc EXCEPT ![w] = "redirect"]
    /\ ws' = [ws EXCEPT ![w] = <<>>]
    /\ data' = [data EXCEPT ![w] = NoData]
    /\ out' = [kind |-> "redirect", selected_id |-> data[w]["id_number"], records |-> <<>>,
               selected_record |-> NoRecord, qr_code |-> NoQr]

\* wb.save(EXCEL_FILE), then the redirect to id_preview with selected_id
GenerateSave(w) ==
    /\ pc[w] = "loaded"
    /\ exists' = TRUE
    /\ rows' = SaveSheet(ws[w])
    /\ hist' = Append(hist, [data |-> data[w], row |-> ws[w][Len(ws[w])]])
    /\ writer' = w
    /\ seen' = [seen EXCEPT ![w] = 0]
    /\ sel' = [sel EXCEPT ![w] = data[w]["id_number"]]
    /\ pc' = [pc EXCEPT ![w] = "redirect"]
    /\ ws' = [ws EXCEPT ![w] = <<>>]
    /\ data' = [data EXCEPT ![w] = NoData]
    /\ out' = [kind |-> "redirect", selected_id |-> data[w]["id_number"], records |-> <<>>,
               selected_record |-> NoRecord, qr_code |-> NoQr]

\* the caller follows the redirect: GET /id-preview?selected_id=...&is_new=True
FollowRedirect(w) ==
    /\ pc[w] = "redirect"
    /\ out' = id_preview(get_all_records(exists, rows), sel[w])
    /\ pc' = [pc EXCEPT ![w] = "idle"]
    /\ sel' = [sel EXCEPT ![w] = None]
    /\ UNCHANGED <<exists, rows, ws, data, hist, writer, seen>>

\* GET /id-preview with any selected_id
IdPreview(w) ==
    /\ pc[w] = "idle"
    /\ \E s \in SelectedIds : out' = id_preview(get_all_records(exists, rows), s)
    /\ UNCHANGED <<exists, rows, pc, ws, data, sel, hist, writer, seen>>

\* GET /batch
BatchView(w) ==
    /\ pc[w] = "idle"
    /\ out' = batch_view(get_all_records(exists, rows))
    /\ UNCHANGED <<exists, rows, pc, ws, data, sel, hist, writer, seen>>

\* no other caller is between the load and the save of log_to_excel
Quiet(w) == \A v \in Callers \ {w} : pc[v] # "loaded"

Next ==
    \E w \in Callers :
        \/ GenerateLoad(w)
        \/ GenerateSave(w)
        \/ FollowRedirect(w)
        \/ IdPreview(w)
        \/ BatchView(w)

\* the requests of simultaneous callers interleave
Spec == Init /\ [][Next]_vars

NextSerial ==
    \E w \in Callers :
        \/ Quiet(w) /\ GenerateLoad(w)
        \/ GenerateSave(w)
        \/ FollowRedirect(w)
        \/ IdPreview(w)
        \/ BatchView(w)

\* log_to_excel calls never overlap
SpecSerial == Init /\ [][NextSerial]_vars

\* -------------------------------------------- generate_qr_base64 on its own
\* a record as get_all_records returns it, every field filled
FullRecord ==
    [date |-> Str(Clock[1].date), id_number |-> Str(<<"0", "1">>),
     full_name |-> Str(<<"J", "O">>), nickname |-> Str(<<"J">>),
     position |-> Str(<<"P", "A">>), office |-> Str(<<"O", "B">>),
     contact_name |-> Str(<<"M", "A">>), contact_number |-> Str(<<"0", "9">>),
     address |-> Str(<<"B", "O">>), photo_filename |-> Str(DefaultPhoto)]

QrFields == {"id_number", "full_name", "position", "office", "contact_name", "contact_number"}

\* the mappings generate_qr_base64 is applied to: the full record, the record
\* with one field changed, the record with an empty cell (None) and the
\* record with one of the six keys missing
QrInputs ==
    {FullRecord}
    \cup {[FullRecord EXCEPT ![k] = Str(<<"X">>)] : k \in DOMAIN FullRecord}
    \cup {[FullRecord EXCEPT ![k] = None] : k \in QrFields}
    \cup {[j \in DOMAIN FullRecord \ {k} |-> FullRecord[j]] : k \in QrFields}

InitQr ==
    /\ exists = FALSE
    /\ rows = <<>>
    /\ pc = [w \in Callers |-> "idle"]
    /\ ws = [w \in Callers |-> <<>>]
    /\ data \in [Callers -> QrInputs]
    /\ sel = [w \in Callers |-> None]
    /\ out = [kind |-> "none", selected_id |-> None, records |-> <<>>,
              selected_record |-> NoRecord, qr_code |-> NoQr]
    /\ hist = <<>>
    /\ writer = "nobody"
    /\ seen = [w \in Callers |-> 0]

\* generate_qr_base64(data[w])
EncodeQr(w) ==
    /\ out' = [kind |-> "qr", selected_id |-> None, records |-> <<>>,
               selected_record |-> data[w], qr_code |-> generate_qr_base64(data[w])]
    /\ UNCHANGED <<exists, rows, pc, ws, data, sel, hist, writer, seen>>

NextQr == \E w \in Callers : EncodeQr(w)

SpecQr == InitQr /\ [][NextQr]_vars

\* ================================================================== claims
\* the nine keys of the dict generate_id passes to log_to_excel
CallerFields == {"id_number", "full_name", "nickname", "position", "office",
                 "contact_name", "contact_number", "address", "photo_filename"}

\* the number of data rows the file holds
DataRows == IF exists THEN Len(rows) - 1 ELSE 0

\* caller w completes log_to_excel in this step
Saves(w) == pc[w] = "loaded" /\ pc'[w] = "redirect"

\* C1: once a log_to_excel call has completed on a file that did not exist,
\* the file exists, its row 1 is the header row of the 10 fixed column names
\* and no later row is a header row, however many calls follow; before the
\* first call completes there is no file.
C1_OneHeaderRow ==
    /\ Len(EXCEL_HEADERS) = 10
    /\ exists <=> hist # <<>>
    /\ exists =>
         /\ Len(rows) >= 2
         /\ rows[1] = EXCEL_HEADERS
         /\ \A i \in 2..Len(rows) : rows[i] # EXCEL_HEADERS

\* C1 witness: a second call has completed and both rows are in the file
C1_SecondAppendDone == Len(hist) = 2 /\ exists /\ Len(rows) = 3

\* C2: when log_to_excel calls do not overlap, get_all_records returns as many
\* records as calls have completed, the i-th record holds the fields of the
\* i-th call's dict (as the file stores them) and its timestamp, and no
\* record is the header row.
C2_OrderPreserved ==
    LET records == get_all_records(exists, rows)
    IN  /\ Len(records) = Len(hist)
        /\ \A i \in DOMAIN records :
             /\ \A k \in CallerFields : records[i][k] = WriteCell(hist[i].data[k])
             /\ records[i]["date"] = hist[i].row[1]
             /\ records[i]["date"] # EXCEL_HEADERS[1]

\* C2 witness: two calls with different dicts have completed
C2_TwoAppended ==
    /\ Len(hist) = 2
    /\ hist[1].data # hist[2].data
    /\ \A w \in Callers : pc[w] = "idle"

\* C3 as claimed: every completed log_to_excel call adds exactly one data row
\* at the end of the file and keeps every row the file held, and no other
\* step changes the file.
C3_AppendOnly ==
    [][ IF \E w \in Callers : Saves(w)
        THEN /\ exists'
             /\ Len(rows') = (IF exists THEN Len(rows) ELSE 1) + 1
             /\ exists => SubSeq(rows', 1, Len(rows)) = rows
        ELSE UNCHANGED <<exists, rows>> ]_vars

\* C3 amended: a log_to_excel call that completes with no other call having
\* completed since it opened the file adds exactly one data row at the end
\* and keeps every row the file held; no other step changes the file.
C3_AppendOnlyWhenNotOverlapped ==
    [][ IF \E w \in Callers : Saves(w)
        THEN \A w \in Callers :
               (Saves(w) /\ seen[w] = Len(hist)) =>
                 /\ exists'
                 /\ Len(rows') = (IF exists THEN Len(rows) ELSE 1) + 1
                 /\ exists => SubSeq(rows', 1, Len(rows)) = rows
        ELSE UNCHANGED <<exists, rows>> ]_vars

\* C3 witness: a call completed on an existing file nobody else had written
\* to meanwhile; both data rows are in the file
C3_SecondRowAdded ==
    /\ Len(hist) = 2
    /\ exists /\ Len(rows) = 3
    /\ \A i \in 1..2 : rows[i + 1] = [j \in 1..10 |-> WriteCell(hist[i].row[j])]

\* C8: a log_to_excel call that completes after another call completed since
\* it opened the file rewrites the file from its own copy: its row is the last
\* row, and the file holds fewer data rows than calls have completed.
C8_OverlappedSaveLosesRow ==
    [][ \A w \in Callers :
          (Saves(w) /\ seen[w] < Len(hist)) =>
            /\ rows'[Len(rows')] = [j \in 1..10 |-> WriteCell(ws[w][Len(ws[w])][j])]
            /\ (IF exists' THEN Len(rows') - 1 ELSE 0) < Len(hist') ]_vars

\* C8 witness: two callers both opened the missing file, both completed
\* without error, and the file holds only the row of the one that saved last
C8_RowLost ==
    /\ Len(hist) = 2
    /\ \A w \in Callers : pc[w] = "redirect"
    /\ exists /\ Len(rows) = 2
    /\ rows[2] = [j \in 1..10 |-> WriteCell(hist[2].row[j])]
    /\ rows[2] # [j \in 1..10 |-> WriteCell(hist[1].row[j])]

\* C4: a lookup with a non-empty id that is the id_number of at least one
\* record selects the first such record in file order.
C4_FirstMatchSelected ==
    (out.kind = "preview" /\ Truthy(out.selected_id)) =>
      \A i \in DOMAIN out.records :
        ( /\ out.records[i]["id_number"] = out.selected_id
          /\ \A j \in 1..(i - 1) : out.records[j]["id_number"] # out.selected_id )
        => out.selected_record = out.records[i]

\* C4 witness: two different records share the id looked up, the first is selected
C4_DuplicateIdLookedUp ==
    /\ out.kind = "preview" /\ Truthy(out.selected_id)
    /\ Len(out.records) = 2
    /\ out.records[1]["id_number"] = out.selected_id
    /\ out.records[2]["id_number"] = out.selected_id
    /\ out.records[1] # out.records[2]
    /\ out.selected_record = out.records[1]

\* C5: on a non-empty store a lookup with an empty or absent id, or with an id
\* that is the id_number of no record, selects the last record.
C5_FallbackToLatest ==
    ( /\ out.kind = "preview"
      /\ \/ ~Truthy(out.selected_id)
         \/ \A i \in DOMAIN out.records : out.records[i]["id_number"] # out.selected_id )
    => out.selected_record = out.records[Len(out.records)]

\* C6: id_preview answers with the empty signal exactly when the store holds
\* no data row, and otherwise selects one of the persisted records; it has no
\* other outcome.
C6_EmptySignal ==
    /\ out.kind \in {"none", "redirect", "batch", "empty", "preview"}
    /\ out.kind = "empty" =>
         DataRows = 0 /\ out.selected_record = NoRecord /\ out.qr_code = NoQr
    /\ out.kind = "preview" =>
         /\ DataRows >= 1
         /\ \E i \in 2..Len(rows) :
              out.selected_record =
                [date |-> rows[i][1], id_number |-> rows[i][2], full_name |-> rows[i][3],
                 nickname |-> rows[i][4], position |-> rows[i][5], office |-> rows[i][6],
                 contact_name |-> rows[i][7], contact_number |-> rows[i][8],
                 address |-> rows[i][9], photo_filename |-> rows[i][10]]

\* C6 witness: a lookup with an id on a store without a file gave the empty signal
C6_EmptyStoreLookedUp == out.kind = "empty" /\ ~exists /\ Truthy(out.selected_id)

\* the one completed call passed a dict whose nine values are all non-empty
FullyPopulated == \A k \in CallerFields : hist[1].data[k].v # <<>>

\* C7 as claimed: after one call with a fully populated dict, get_all_records
\* returns one record with the ten keys, the timestamp under date_generated,
\* the nine values as passed and a non-empty timestamp.
C7_RoundTrip ==
    (Len(hist) = 1 /\ FullyPopulated) =>
      LET records == get_all_records(exists, rows)
      IN  /\ Len(records) = 1
          /\ DOMAIN records[1] = CallerFields \cup {"date_generated"}
          /\ \A k \in CallerFields : records[1][k] = hist[1].data[k]
          /\ Truthy(records[1]["date_generated"])

\* C7 amended: after one call, get_all_records returns one record with the
\* nine caller keys and the key date; each non-empty value is as passed, an
\* empty string comes back as None, and date is a non-empty string.
C7_RoundTripDateKey ==
    Len(hist) = 1 =>
      LET records == get_all_records(exists, rows)
      IN  /\ Len(records) = 1
          /\ DOMAIN records[1] = CallerFields \cup {"date"}
          /\ \A k \in CallerFields :
               records[1][k] = IF hist[1].data[k].v # <<>> THEN hist[1].data[k] ELSE None
          /\ Truthy(records[1]["date"])

\* C7 witness: one fully populated record was appended and listed
C7_OneFullRecordListed ==
    /\ Len(hist) = 1 /\ FullyPopulated
    /\ out.kind = "batch" /\ Len(out.records) = 1

\* the value the template shows for key k of d: nothing for a missing key
TemplateField(d, k) == IF k \in DOMAIN d THEN PyStr(d[k]) ELSE <<>>

RECURSIVE JoinLines(_)
JoinLines(lines) ==
    IF Len(lines) = 1 THEN lines[1]
    ELSE lines[1] \o <<"\n">> \o JoinLines(Tail(lines))

\* C9: the payload is the seven lines of the fixed template joined by
\* newlines, built of the six fields alone, a missing field rendering as
\* nothing in its line.
C9_TemplatePayload ==
    out.kind = "qr" =>
      LET d == out.selected_record
      IN  out.qr_code = JoinLines(<<
            <<"M", "U", "N", "I", "C", "I", "P", "A", "L", "I", "T", "Y", " ", "O", "F", " ",
              "B", "O", "A", "C", " ", "I", "D">>,
            <<"-", "-", "-", "-", "-", "-", "-", "-", "-", "-", "-",
              "-", "-", "-", "-", "-", "-", "-", "-", "-", "-", "-">>,
            <<"I", "D", " ", "N", "O", ":", " ">> \o TemplateField(d, "id_number"),
            <<"N", "A", "M", "E", ":", " ">> \o TemplateField(d, "full_name"),
            <<"P", "O", "S", "I", "T", "I", "O", "N", ":", " ">> \o TemplateField(d, "position"),
            <<"O", "F", "F", "I", "C", "E", ":", " ">> \o TemplateField(d, "office"),
            <<"E", "M", "E", "R", "G", "E", "N", "C", "Y", ":", " ">>
              \o TemplateField(d, "contact_name") \o <<" ", "(">>
              \o TemplateField(d, "contact_number") \o <<")">> >>)

\* C10: when a caller follows the redirect of its generate_id and no other
\* call was logged meanwhile, the preview selects the record just appended.
C10_PreviewShowsNewRecord ==
    [][ \A w \in Callers :
          (pc[w] = "redirect" /\ pc'[w] = "idle" /\ writer = w) =>
            /\ out'.kind = "preview"
            /\ out'.selected_record =
                 LET row == hist[Len(hist)].row
                 IN  [date |-> row[1], id_number |-> WriteCell(row[2]),
                      full_name |-> WriteCell(row[3]), nickname |-> WriteCell(row[4]),
                      position |-> WriteCell(row[5]), office |-> WriteCell(row[6]),
                      contact_name |-> WriteCell(row[7]), contact_number |-> WriteCell(row[8]),
                      address |-> WriteCell(row[9]), photo_filename |-> WriteCell(row[10])] ]_vars

====
